---- MODULE Spec2Model ----
(***************************************************************************)
(* CampusRide: the in-memory entity store (server/storage.ts), the request *)
(* handlers over it (server/routes.ts) and the student page of the client  *)
(* (client/src/pages).  A handler is one action where requests are handled  *)
(* one at a time; the race specifications split the authentication and     *)
(* booking handlers at their awaits, so that requests in flight at once     *)
(* interleave there.                                                        *)
(***************************************************************************)
EXTENDS Integers, Sequences, FiniteSets, TLC

\* ---------------------------------------------------------------- bounds
MaxStudents == 2        \* distinct well-formed college IDs that are tried
MaxBookings == 2        \* booking records the store may hold
MaxNewRoutes == 1       \* routes an admin creates on top of the seeded ones
MaxSeatInput == 1       \* largest seat count an admin types for a new route
MaxInflight == 2        \* requests that may be in flight at once
MaxRouteEdits == 2      \* routes an admin updates or deletes
MaxClients == 3         \* browsers that show the student page
MaxClock == 2           \* milliseconds the server's clock is followed for

\* ------------------------------------------------------------- constants
Dates == {"2025-01-10", "2025-01-11"}  \* travel dates that requests name
Statuses == {"confirmed", "cancelled"}  \* statuses that requests and patches name
BusNumbers == {"BUS-001", "BUS-099"}   \* bus numbers an admin types
StatusKey == "system_status"

\* randomUUID(): the n-th identifier drawn for a collection
Uuid(kind, n) == <<kind, n>>

\* characters of decimal digits
DigitChars == <<"0", "1", "2", "3", "4", "5", "6", "7", "8", "9">>
IsDigit(c) == \E i \in 1..Len(DigitChars) : DigitChars[i] = c

\* date.toISOString().split('T')[0] of the day i days after the server
\* started, which it did on 2025-01-10: the days of the calendar from then on
Calendar ==
  << "2025-01-10", "2025-01-11", "2025-01-12", "2025-01-13", "2025-01-14",
     "2025-01-15", "2025-01-16", "2025-01-17", "2025-01-18", "2025-01-19",
     "2025-01-20", "2025-01-21", "2025-01-22", "2025-01-23", "2025-01-24",
     "2025-01-25", "2025-01-26", "2025-01-27", "2025-01-28", "2025-01-29",
     "2025-01-30", "2025-01-31", "2025-02-01", "2025-02-02", "2025-02-03",
     "2025-02-04", "2025-02-05", "2025-02-06", "2025-02-07", "2025-02-08" >>
IsoDate(i) == Calendar[i + 1]

\* availableDates of initializeDefaults: today and the days after it
DaysAhead == 30
availableDates == [i \in 1..DaysAhead |-> IsoDate(i - 1)]

\* sampleRoutes of initializeDefaults
SampleRoutes ==
  << [busNumber |-> "BUS-001", totalSeats |-> 40, availableSeats |-> 23,
      availableDates |-> availableDates, isActive |-> TRUE],
     [busNumber |-> "BUS-002", totalSeats |-> 35, availableSeats |-> 8,
      availableDates |-> SubSeq(availableDates, 1, 20), isActive |-> TRUE],
     [busNumber |-> "BUS-003", totalSeats |-> 40, availableSeats |-> 0,
      availableDates |-> SubSeq(availableDates, 1, 15), isActive |-> TRUE] >>

StudentIds == {Uuid("student", n) : n \in 1..MaxStudents}
RouteIds == {Uuid("route", n) : n \in 1..(Len(SampleRoutes) + MaxNewRoutes)}
BookingIds == {Uuid("booking", n) : n \in 1..MaxBookings}

\* college IDs are strings, kept as sequences of characters
CollegeIdOf(n) ==
  <<"S", "J", "C", "E", "T", "2", "0", "2", "4", "0", "0", DigitChars[n + 1]>>
MalformedCollegeIds ==
  { <<"S", "J", "C", "E", "T", "1", "2", "3">>,
    <<"s", "j", "c", "e", "t", "2", "0", "2", "4", "0", "0", "1">> }
CollegeIdInputs == {CollegeIdOf(n) : n \in 1..MaxStudents} \cup MalformedCollegeIds

\* collegeIdSchema: /^SJCET\d{7}$/
collegeIdSchema(s) ==
  /\ Len(s) = 12
  /\ SubSeq(s, 1, 5) = <<"S", "J", "C", "E", "T">>
  /\ \A i \in 6..12 : IsDigit(s[i])

VARIABLES
  students,        \* MemStorage.students, in insertion order
  busRoutes,       \* MemStorage.busRoutes, in insertion order
  bookings,        \* MemStorage.bookings, in insertion order
  systemSettings,  \* MemStorage.systemSettings, in insertion order
  uuids,           \* how many identifiers randomUUID() has handed to each collection
  seatsAtCreation, \* history: availableSeats each route was created with
  resp,            \* the response to the last request
  inflight,        \* the handlers suspended at an await, with their locals
  routeEdits,      \* history: how many routes the admin has updated or deleted
  now,             \* the server's clock, in milliseconds since it started
  statusQuery,     \* each browser's cached answer of GET /api/system/status
  portal           \* the state of the StudentPortal component shown in a browser

client == <<statusQuery, portal>>
vars == <<students, busRoutes, bookings, systemSettings, uuids, seatsAtCreation, resp,
          inflight, routeEdits, now, client>>
store == <<students, busRoutes, bookings, systemSettings, uuids, seatsAtCreation>>

\* ------------------------------------------------------- Map primitives
\* A Map is the sequence of its entries (key, value) in insertion order; an
\* absent value (undefined) is the empty sequence, a present one a
\* one-element sequence.
Undefined == <<>>
First(S) == CHOOSE i \in S : \A j \in S : i <= j
\* Array.find, given the indices of the elements that pass its test
Find(seq, hits) == IF hits = {} THEN Undefined ELSE <<seq[First(hits)]>>
Entry(key, value) == [key |-> key, value |-> value]
\* Array.from(map.values())
Values(map) == [i \in 1..Len(map) |-> map[i].value]
\* Map.get(key)
MapGet(map, key) == Find(Values(map), {i \in 1..Len(map) : map[i].key = key})
\* Map.delete(key)
MapDelete(map, key) == SelectSeq(map, LAMBDA e : e.key # key)
\* { ...existing, ...patch }
Spread(existing, patch) ==
  [f \in (DOMAIN existing) \cup (DOMAIN patch) |->
     IF f \in DOMAIN patch THEN patch[f] ELSE existing[f]]
\* Map.set(key, value): replaces the value in place, or appends an entry
MapSet(map, key, value) ==
  IF \A i \in 1..Len(map) : map[i].key # key THEN Append(map, Entry(key, value))
  ELSE [i \in 1..Len(map) |-> IF map[i].key = key THEN Entry(key, value) ELSE map[i]]

\* ------------------------------------------------------------ MemStorage
getStudent(ss, id) == MapGet(ss, id)

StudentByCollegeIdById(ss, collegeId) ==
  Find(Values(ss), {i \in 1..Len(ss) : ss[i].value.id = collegeId})
getStudentByCollegeId(ss, collegeId) ==
  Find(Values(ss), {i \in 1..Len(ss) : ss[i].value.collegeId = collegeId})

\* the record createStudent stores for the n-th identifier
createStudent(insertStudent, n) ==
  [id |-> Uuid("student", n), collegeId |-> insertStudent.collegeId]

AllBusRoutesWhileOnline(rs) ==
  IF MapGet(systemSettings, StatusKey) # Undefined
     /\ MapGet(systemSettings, StatusKey)[1].value = "offline" THEN <<>> ELSE Values(rs)
getAllBusRoutes(rs) == Values(rs)
getActiveBusRoutes(rs) == SelectSeq(Values(rs), LAMBDA r : r.isActive)
getBusRoute(rs, id) == MapGet(rs, id)
BusRouteByNumberById(rs, busNumber) ==
  Find(Values(rs), {i \in 1..Len(rs) : rs[i].value.id = busNumber})
getBusRouteByNumber(rs, busNumber) ==
  Find(Values(rs), {i \in 1..Len(rs) : rs[i].value.busNumber = busNumber})

\* the record createBusRoute stores for the n-th identifier
createBusRoute(insertBusRoute, n) ==
  Spread(insertBusRoute,
         [id |-> Uuid("route", n),
          isActive |-> IF "isActive" \in DOMAIN insertBusRoute
                       THEN insertBusRoute.isActive ELSE TRUE,
          availableDates |-> IF "availableDates" \in DOMAIN insertBusRoute
                             THEN insertBusRoute.availableDates ELSE <<>>])

\* the route collection after updateBusRoute(id, patch)
updateBusRoute(rs, id, patch) ==
  LET existing == getBusRoute(rs, id)
  IN IF existing = Undefined THEN rs
     ELSE MapSet(rs, id, Spread(existing[1], patch))

\* the route collection after deleteBusRoute(id)
deleteBusRoute(rs, id) == MapDelete(rs, id)

getAllBookings(bs) == Values(bs)
getBookingsByDate(bs, date) == SelectSeq(Values(bs), LAMBDA b : b.travelDate = date)
getBookingsByStudentId(bs, studentId) ==
  SelectSeq(Values(bs), LAMBDA b : b.studentId = studentId)
getBookingsByBusRouteId(bs, busRouteId) ==
  SelectSeq(Values(bs), LAMBDA b : b.busRouteId = busRouteId)

\* the record createBooking stores for the n-th identifier; new Date() reads
\* the clock
BookingRecord(insertBooking, n) ==
  [id |-> Uuid("booking", n),
   studentId |-> insertBooking.studentId,
   busRouteId |-> insertBooking.busRouteId,
   travelDate |-> insertBooking.travelDate,
   bookingTime |-> now,
   status |-> IF "status" \in DOMAIN insertBooking /\ insertBooking.status # ""
              THEN insertBooking.status ELSE "confirmed"]

\* the patch createBooking hands to updateBusRoute
SeatPatchWrongField(busRoute) == [totalSeats |-> busRoute.availableSeats - 1]
SeatPatch(busRoute) == [availableSeats |-> busRoute.availableSeats - 1]

\* the route collection after createBooking's seat update
SeatUpdate(rs, busRouteId) ==
  LET busRoute == getBusRoute(rs, busRouteId)
  IN IF busRoute # Undefined /\ busRoute[1].availableSeats > 0
     THEN updateBusRoute(rs, busRoute[1].id, SeatPatch(busRoute[1]))
     ELSE rs

\* the booking collection after updateBooking(id, patch)
updateBooking(bs, id, patch) ==
  LET existing == MapGet(bs, id)
  IN IF existing = Undefined THEN bs
     ELSE MapSet(bs, id, Spread(existing[1], patch))

getSystemSetting(st, key) == MapGet(st, key)

\* getBookingWithDetails(bookingId); the booking is there when it is called
getBookingWithDetails(ss, rs, bs, bookingId) ==
  LET booking == MapGet(bs, bookingId)[1]
  IN Spread(booking, [student |-> getStudent(ss, booking.studentId),
                      busRoute |-> getBusRoute(rs, booking.busRouteId)])

\* bookingsWithDetails.sort((a, b) => b.bookingTime - a.bookingTime): the sort
\* is stable, an element goes behind those that are not older than it
InsertByBookingTime(sorted, booking) ==
  LET ahead == {i \in 1..Len(sorted) : sorted[i].bookingTime >= booking.bookingTime}
      k == Cardinality(ahead)
  IN SubSeq(sorted, 1, k) \o <<booking>> \o SubSeq(sorted, k + 1, Len(sorted))
RECURSIVE SortByBookingTime(_)
SortByBookingTime(bookingsWithDetails) ==
  IF bookingsWithDetails = <<>> THEN <<>>
  ELSE InsertByBookingTime(
         SortByBookingTime(SubSeq(bookingsWithDetails, 1, Len(bookingsWithDetails) - 1)),
         bookingsWithDetails[Len(bookingsWithDetails)])

\* getStudentBookingHistory(collegeId)
HistoryOfAnyStudent(ss, rs, bs, collegeId) ==
  SortByBookingTime([i \in 1..Len(bs) |->
                       Spread(bs[i].value,
                              [busRoute |-> getBusRoute(rs, bs[i].value.busRouteId)])])
getStudentBookingHistory(ss, rs, bs, collegeId) ==
  LET student == getStudentByCollegeId(ss, collegeId)
      found == getBookingsByStudentId(bs, student[1].id)
  IN IF student = Undefined THEN <<>>
     ELSE SortByBookingTime([i \in 1..Len(found) |->
                               Spread(found[i],
                                      [busRoute |-> getBusRoute(rs, found[i].busRouteId)])])

\* the settings collection after setSystemSetting; a setting's identifier is
\* drawn afresh on every write and read by nothing, and is left out
SetSystemSettingUnderId(st, insertSetting) ==
  Append(st, Entry("id", [key |-> insertSetting.key, value |-> insertSetting.value]))
setSystemSetting(st, insertSetting) ==
  MapSet(st, insertSetting.key,
         [key |-> insertSetting.key, value |-> insertSetting.value])

\* ------------------------------------------------------------------ Init
NoResponse == [op |-> "none", code |-> 0, message |-> "", body |-> <<>>]
Slots == 1..MaxInflight
Idle == [op |-> "idle"]
Clients == 1..MaxClients

\* StudentPortal as it mounts: the useState and useForm defaults, no query data
PortalMounted ==
  [collegeId |-> <<>>, currentStudent |-> Undefined, busRoutes |-> Undefined,
   bookingHistory |-> Undefined, selectedBus |-> Undefined, selectedDate |-> ""]

\* the store once the constructor's initializeDefaults has run
Init ==
  /\ students = <<>>
  /\ busRoutes = [n \in 1..Len(SampleRoutes) |->
                    Entry(Uuid("route", n), createBusRoute(SampleRoutes[n], n))]
  /\ bookings = <<>>
  /\ systemSettings = setSystemSetting(<<>>, [key |-> StatusKey, value |-> "online"])
  /\ uuids = [student |-> 0, route |-> Len(SampleRoutes), booking |-> 0]
  /\ seatsAtCreation = [n \in 1..Len(SampleRoutes) |-> SampleRoutes[n].availableSeats]
  /\ resp = NoResponse
  /\ inflight = [slot \in Slots |-> Idle]
  /\ routeEdits = 0
  /\ now = 0
  /\ statusQuery = [c \in Clients |-> Undefined]
  /\ portal = PortalMounted

\* ------------------------------------------------------ request handlers
Respond(op, code, message, body) ==
  resp' = [op |-> op, code |-> code, message |-> message, body |-> body]

MsgOffline == "System is currently offline. Please try again later."
MsgInvalidBooking == "Invalid booking data"
MsgNoStudent == "Student not found"
MsgNoRoute == "Bus route not found"
MsgNoSeats == "No seats available on this bus"
MsgDuplicate == "You already have a booking for this bus on this date"
MsgCollegeId == "College ID must be in format SJCET followed by 7 digits (e.g., SJCET2024001)"
MsgBusNumber == "Bus number already exists"
MsgInvalidRoute == "Invalid bus route data"
MsgInvalidStatus == "Invalid status value"

Response(op, code, message, body) ==
  [op |-> op, code |-> code, message |-> message, body |-> body]

\* POST /api/student/auth: the response and the store it leaves
StudentAuthResult(collegeId) ==
  LET student == getStudentByCollegeId(students, collegeId)
      created == createStudent([collegeId |-> collegeId], uuids.student + 1)
  IN IF ~ collegeIdSchema(collegeId)
     THEN [resp |-> Response("POST /api/student/auth", 400, MsgCollegeId, <<>>),
           students |-> students, uuids |-> uuids]
     ELSE IF student = Undefined
     THEN [resp |-> Response("POST /api/student/auth", 200, "", <<created>>),
           students |-> MapSet(students, created.id, created),
           uuids |-> [uuids EXCEPT !.student = @ + 1]]
     ELSE [resp |-> Response("POST /api/student/auth", 200, "", student),
           students |-> students, uuids |-> uuids]

StudentAuth(collegeId) ==
  LET result == StudentAuthResult(collegeId)
  IN /\ result.uuids.student <= MaxStudents
     /\ resp' = result.resp
     /\ students' = result.students
     /\ uuids' = result.uuids
     /\ UNCHANGED <<busRoutes, bookings, systemSettings, seatsAtCreation, inflight, routeEdits, now, client>>

\* insertBookingSchema.parse: the three references are required strings
insertBookingSchema(body) == {"studentId", "busRouteId", "travelDate"} \subseteq DOMAIN body

\* systemStatus?.value === "offline"
IsOfflineMisspelt(systemStatus) == systemStatus # Undefined /\ systemStatus[1].value = "Offline"
IsOffline(systemStatus) == systemStatus # Undefined /\ systemStatus[1].value = "offline"

\* busRoute.availableSeats <= 0
NoSeatsLeftStrict(busRoute) == busRoute.availableSeats < 0
NoSeatsLeft(busRoute) == busRoute.availableSeats <= 0

\* the predicate of existingBookings.find in POST /api/bookings
IsDuplicateAnyStatus(booking, bookingData) ==
  /\ booking.busRouteId = bookingData.busRouteId
  /\ booking.travelDate = bookingData.travelDate
IsDuplicateOnlyCancelled(booking, bookingData) ==
  /\ booking.busRouteId = bookingData.busRouteId
  /\ booking.travelDate = bookingData.travelDate
  /\ booking.status = "cancelled"
IsDuplicate(booking, bookingData) ==
  /\ booking.busRouteId = bookingData.busRouteId
  /\ booking.travelDate = bookingData.travelDate
  /\ booking.status # "cancelled"

\* existingBookings.find(...) finds a booking
HasDuplicate(existingBookings, bookingData) ==
  \E i \in 1..Len(existingBookings) : IsDuplicate(existingBookings[i], bookingData)

Verdict(code, message) == [code |-> code, message |-> message]

\* POST /api/bookings up to the call of createBooking: the checks, in order
BookingDecisionDuplicateFirst(ss, rs, bs, st, body) ==
  LET student == getStudent(ss, body.studentId)
      busRoute == getBusRoute(rs, body.busRouteId)
  IN IF IsOffline(getSystemSetting(st, StatusKey)) THEN Verdict(503, MsgOffline)
     ELSE IF ~ insertBookingSchema(body) THEN Verdict(400, MsgInvalidBooking)
     ELSE IF student = Undefined THEN Verdict(404, MsgNoStudent)
     ELSE IF busRoute = Undefined THEN Verdict(404, MsgNoRoute)
     ELSE IF HasDuplicate(getBookingsByStudentId(bs, student[1].id), body)
          THEN Verdict(409, MsgDuplicate)
     ELSE IF NoSeatsLeft(busRoute[1]) THEN Verdict(409, MsgNoSeats)
     ELSE Verdict(200, "")
BookingDecision(ss, rs, bs, st, body) ==
  LET student == getStudent(ss, body.studentId)
      busRoute == getBusRoute(rs, body.busRouteId)
  IN IF IsOffline(getSystemSetting(st, StatusKey)) THEN Verdict(503, MsgOffline)
     ELSE IF ~ insertBookingSchema(body) THEN Verdict(400, MsgInvalidBooking)
     ELSE IF student = Undefined THEN Verdict(404, MsgNoStudent)
     ELSE IF busRoute = Undefined THEN Verdict(404, MsgNoRoute)
     ELSE IF NoSeatsLeft(busRoute[1]) THEN Verdict(409, MsgNoSeats)
     ELSE IF HasDuplicate(getBookingsByStudentId(bs, student[1].id), body)
          THEN Verdict(409, MsgDuplicate)
     ELSE Verdict(200, "")

\* POST /api/bookings: the response and the store it leaves
PostBookingsResultInsertFirst(body) ==
  LET verdict == BookingDecision(students, busRoutes, bookings, systemSettings, body)
      booking == BookingRecord(body, uuids.booking + 1)
  IN IF verdict.code \in {503, 400}
     THEN [resp |-> Response("POST /api/bookings", verdict.code, verdict.message, <<>>),
           bookings |-> bookings, busRoutes |-> busRoutes, uuids |-> uuids]
     ELSE [resp |-> Response("POST /api/bookings", verdict.code, verdict.message,
                             IF verdict.code = 200 THEN <<booking>> ELSE <<>>),
           bookings |-> MapSet(bookings, booking.id, booking),
           busRoutes |-> SeatUpdate(busRoutes, booking.busRouteId),
           uuids |-> [uuids EXCEPT !.booking = @ + 1]]
PostBookingsResult(body) ==
  LET verdict == BookingDecision(students, busRoutes, bookings, systemSettings, body)
      booking == BookingRecord(body, uuids.booking + 1)
  IN IF verdict.code # 200
     THEN [resp |-> Response("POST /api/bookings", verdict.code, verdict.message, <<>>),
           bookings |-> bookings, busRoutes |-> busRoutes, uuids |-> uuids]
     ELSE [resp |-> Response("POST /api/bookings", 200, "", <<booking>>),
           bookings |-> MapSet(bookings, booking.id, booking),
           busRoutes |-> SeatUpdate(busRoutes, booking.busRouteId),
           uuids |-> [uuids EXCEPT !.booking = @ + 1]]

PostBookings(body) ==
  LET result == PostBookingsResult(body)
  IN /\ result.uuids.booking <= MaxBookings
     /\ resp' = result.resp
     /\ bookings' = result.bookings
     /\ busRoutes' = result.busRoutes
     /\ uuids' = result.uuids
     /\ UNCHANGED <<students, systemSettings, seatsAtCreation, inflight, routeEdits, now, client>>

\* MemStorage.updateBooking(id, { status })
UpdateBooking(id, patch) ==
  /\ bookings' = updateBooking(bookings, id, patch)
  /\ Respond("updateBooking", 0, "", MapGet(bookings', id))
  /\ UNCHANGED <<students, busRoutes, systemSettings, uuids, seatsAtCreation, inflight, routeEdits, now, client>>

\* POST /api/admin/system/status: the response and the settings it leaves
AdminSetStatusResult(status) ==
  IF status \notin {"online", "offline"}
  THEN [resp |-> Response("POST /api/admin/system/status", 400, MsgInvalidStatus, <<>>),
        systemSettings |-> systemSettings]
  ELSE [resp |-> Response("POST /api/admin/system/status", 200, "", <<status>>),
        systemSettings |-> setSystemSetting(systemSettings,
                                            [key |-> StatusKey, value |-> status])]

AdminSetStatus(status) ==
  LET result == AdminSetStatusResult(status)
  IN /\ resp' = result.resp
     /\ systemSettings' = result.systemSettings
     /\ UNCHANGED <<students, busRoutes, bookings, uuids, seatsAtCreation, inflight, routeEdits, now, client>>

\* systemStatus?.value || "online"
ValueAlwaysOnline(systemStatus) == "online"
ValueOrOnline(systemStatus) ==
  IF systemStatus = Undefined \/ systemStatus[1].value = "" THEN "online"
  ELSE systemStatus[1].value

\* GET /api/system/status over a settings collection
GetSystemStatusResult(st) ==
  Response("GET /api/system/status", 200, "", <<ValueOrOnline(getSystemSetting(st, StatusKey))>>)

GetSystemStatus ==
  /\ resp' = GetSystemStatusResult(systemSettings)
  /\ UNCHANGED <<store, inflight, routeEdits, now, client>>

\* insertBusRouteSchema.parse: bus number and both seat counts are required
insertBusRouteSchema(data) == {"busNumber", "totalSeats", "availableSeats"} \subseteq DOMAIN data

\* POST /api/admin/bus-routes: the response and the store it leaves
AdminCreateBusRouteResult(data) ==
  LET route == createBusRoute(data, uuids.route + 1)
  IN IF ~ insertBusRouteSchema(data)
     THEN [resp |-> Response("POST /api/admin/bus-routes", 400, MsgInvalidRoute, <<>>),
           busRoutes |-> busRoutes, uuids |-> uuids]
     ELSE IF getBusRouteByNumber(busRoutes, data.busNumber) # Undefined
     THEN [resp |-> Response("POST /api/admin/bus-routes", 409, MsgBusNumber, <<>>),
           busRoutes |-> busRoutes, uuids |-> uuids]
     ELSE [resp |-> Response("POST /api/admin/bus-routes", 200, "", <<route>>),
           busRoutes |-> MapSet(busRoutes, route.id, route),
           uuids |-> [uuids EXCEPT !.route = @ + 1]]

AdminCreateBusRoute(data) ==
  LET result == AdminCreateBusRouteResult(data)
  IN /\ result.uuids.route <= Len(SampleRoutes) + MaxNewRoutes
     /\ resp' = result.resp
     /\ busRoutes' = result.busRoutes
     /\ uuids' = result.uuids
     /\ seatsAtCreation' =
          IF result.resp.code = 200
          THEN Append(seatsAtCreation, result.resp.body[1].availableSeats)
          ELSE seatsAtCreation
     /\ UNCHANGED <<students, bookings, systemSettings, inflight, routeEdits, now, client>>

MsgRouteDeleted == "Bus route deleted"

\* PUT /api/admin/bus-routes/:id: the response and the routes it leaves;
\* the body goes to updateBusRoute as it came
AdminUpdateBusRouteResult(id, updateData) ==
  LET route == MapGet(updateBusRoute(busRoutes, id, updateData), id)
  IN IF getBusRoute(busRoutes, id) = Undefined
     THEN [resp |-> Response("PUT /api/admin/bus-routes/:id", 404, MsgNoRoute, <<>>),
           busRoutes |-> updateBusRoute(busRoutes, id, updateData)]
     ELSE [resp |-> Response("PUT /api/admin/bus-routes/:id", 200, "", route),
           busRoutes |-> updateBusRoute(busRoutes, id, updateData)]

AdminUpdateBusRoute(id, updateData) ==
  LET result == AdminUpdateBusRouteResult(id, updateData)
  IN /\ result.resp.code = 200 => routeEdits < MaxRouteEdits
     /\ resp' = result.resp
     /\ busRoutes' = result.busRoutes
     /\ routeEdits' = IF result.resp.code = 200 THEN routeEdits + 1 ELSE routeEdits
     /\ UNCHANGED <<students, bookings, systemSettings, uuids, seatsAtCreation, inflight, now, client>>

\* DELETE /api/admin/bus-routes/:id: the response and the routes it leaves
AdminDeleteBusRouteResult(id) ==
  IF getBusRoute(busRoutes, id) = Undefined
  THEN [resp |-> Response("DELETE /api/admin/bus-routes/:id", 404, MsgNoRoute, <<>>),
        busRoutes |-> deleteBusRoute(busRoutes, id)]
  ELSE [resp |-> Response("DELETE /api/admin/bus-routes/:id", 200, MsgRouteDeleted, <<>>),
        busRoutes |-> deleteBusRoute(busRoutes, id)]

AdminDeleteBusRoute(id) ==
  LET result == AdminDeleteBusRouteResult(id)
  IN /\ result.resp.code = 200 => routeEdits < MaxRouteEdits
     /\ resp' = result.resp
     /\ busRoutes' = result.busRoutes
     /\ routeEdits' = IF result.resp.code = 200 THEN routeEdits + 1 ELSE routeEdits
     /\ UNCHANGED <<students, bookings, systemSettings, uuids, seatsAtCreation, inflight, now, client>>

\* GET /api/admin/bus-routes
AdminListBusRoutesResult ==
  Response("GET /api/admin/bus-routes", 200, "", getAllBusRoutes(busRoutes))

AdminListBusRoutes ==
  /\ resp' = AdminListBusRoutesResult
  /\ UNCHANGED <<store, inflight, routeEdits, now, client>>

\* GET /api/admin/bookings
AdminListBookingsResult ==
  LET all == getAllBookings(bookings)
  IN Response("GET /api/admin/bookings", 200, "",
              [i \in 1..Len(all) |->
                 getBookingWithDetails(students, busRoutes, bookings, all[i].id)])

AdminListBookings ==
  /\ resp' = AdminListBookingsResult
  /\ UNCHANGED <<store, inflight, routeEdits, now, client>>

\* allRoutes.reduce((sum, route) => sum + route.availableSeats, 0)
RECURSIVE SumAvailableSeats(_)
SumAvailableSeats(allRoutes) ==
  IF allRoutes = <<>> THEN 0
  ELSE allRoutes[1].availableSeats + SumAvailableSeats(Tail(allRoutes))

\* GET /api/admin/stats, asked on the day today
AdminStatsResult(today) ==
  LET allRoutes == getAllBusRoutes(busRoutes)
  IN Response("GET /api/admin/stats", 200, "",
              <<[totalBuses |-> Len(allRoutes),
                 todayBookings |-> Len(getBookingsByDate(bookings, today)),
                 availableSeats |-> SumAvailableSeats(allRoutes),
                 activeRoutes |-> Len(SelectSeq(allRoutes, LAMBDA route : route.isActive))]>>)

AdminStats(today) ==
  /\ resp' = AdminStatsResult(today)
  /\ UNCHANGED <<store, inflight, routeEdits, now, client>>

MsgLoginOk == "Login successful"
MsgInvalidCredentials == "Invalid credentials"
MsgInvalidInput == "Invalid input"
MsgInvalidCollegeId == "Invalid college ID format"

\* process.env.ADMIN_EMAIL and process.env.ADMIN_PASSWORD, as configured
AdminEmail == "admin@sjcet.edu"
AdminPassword == "secret"

\* adminLoginSchema.parse: both fields are strings of at least one character
adminLoginSchema(body) ==
  /\ {"username", "password"} \subseteq DOMAIN body
  /\ body.username # "" /\ body.password # ""

\* POST /api/admin/login; the store is not consulted
AdminLoginResult(body) ==
  IF ~ adminLoginSchema(body)
  THEN Response("POST /api/admin/login", 400, MsgInvalidInput, <<>>)
  ELSE IF body.username = AdminEmail /\ body.password = AdminPassword
  THEN Response("POST /api/admin/login", 200, MsgLoginOk, <<>>)
  ELSE Response("POST /api/admin/login", 401, MsgInvalidCredentials, <<>>)

AdminLogin(body) ==
  /\ resp' = AdminLoginResult(body)
  /\ UNCHANGED <<store, inflight, routeEdits, now, client>>

\* GET /api/student/:collegeId/bookings
GetStudentBookingsResult(collegeId) ==
  IF ~ collegeIdSchema(collegeId)
  THEN Response("GET /api/student/:collegeId/bookings", 400, MsgInvalidCollegeId, <<>>)
  ELSE Response("GET /api/student/:collegeId/bookings", 200, "",
                getStudentBookingHistory(students, busRoutes, bookings, collegeId))

GetStudentBookings(collegeId) ==
  /\ resp' = GetStudentBookingsResult(collegeId)
  /\ UNCHANGED <<store, inflight, routeEdits, now, client>>

\* GET /api/bus-routes
GetBusRoutesResult ==
  Response("GET /api/bus-routes", 200, "", getActiveBusRoutes(busRoutes))

GetBusRoutes ==
  /\ resp' = GetBusRoutesResult
  /\ UNCHANGED <<store, inflight, routeEdits, now, client>>

\* ------------------------------------------- handlers suspended at awaits
\* A handler is an async function: it runs up to its next await, where the
\* store call it awaits has already read or written the Maps, and goes on
\* from there in a later turn; other handlers may run in between.
Suspend(slot, frame) == inflight' = [inflight EXCEPT ![slot] = frame]
Finish(slot) == inflight' = [inflight EXCEPT ![slot] = Idle]

\* POST /api/student/auth up to the await of getStudentByCollegeId
BeginStudentAuth(slot, collegeId) ==
  /\ inflight[slot] = Idle
  /\ IF ~ collegeIdSchema(collegeId)
     THEN /\ Respond("POST /api/student/auth", 400, MsgCollegeId, <<>>)
          /\ UNCHANGED <<store, inflight, routeEdits, now, client>>
     ELSE /\ Suspend(slot, [op |-> "auth", pc |-> "getStudentByCollegeId",
                            collegeId |-> collegeId,
                            student |-> getStudentByCollegeId(students, collegeId)])
          /\ UNCHANGED <<store, resp, routeEdits, now, client>>

\* ... from there: if (!student) up to the await of createStudent, else res.json
CreateStudentIfNone(slot) ==
  LET frame == inflight[slot]
      created == createStudent([collegeId |-> frame.collegeId], uuids.student + 1)
  IN /\ frame.op = "auth" /\ frame.pc = "getStudentByCollegeId"
     /\ IF frame.student = Undefined
        THEN /\ uuids.student < MaxStudents
             /\ students' = MapSet(students, created.id, created)
             /\ uuids' = [uuids EXCEPT !.student = @ + 1]
             /\ Suspend(slot, [frame EXCEPT !.pc = "createStudent",
                                            !.student = <<created>>])
             /\ UNCHANGED <<busRoutes, bookings, systemSettings, seatsAtCreation, resp, routeEdits, now, client>>
        ELSE /\ Respond("POST /api/student/auth", 200, "", frame.student)
             /\ Finish(slot)
             /\ UNCHANGED <<store, routeEdits, now, client>>

\* ... and after createStudent: res.json
ReturnCreatedStudent(slot) ==
  LET frame == inflight[slot]
  IN /\ frame.op = "auth" /\ frame.pc = "createStudent"
     /\ Respond("POST /api/student/auth", 200, "", frame.student)
     /\ Finish(slot)
     /\ UNCHANGED <<store, routeEdits, now, client>>

\* ---------------------------------------------------------------- inputs
BookingBodies ==
  [studentId : StudentIds, busRouteId : RouteIds, travelDate : Dates]
  \cup [studentId : StudentIds, busRouteId : RouteIds, travelDate : Dates,
        status : Statuses]
  \cup [studentId : StudentIds, busRouteId : RouteIds]
BookingPatches == [status : Statuses]
StatusInputs == {"online", "offline", "maintenance"}
BusRouteInputs ==
  [busNumber : BusNumbers, totalSeats : {1}, availableSeats : 0..MaxSeatInput]
  \cup [totalSeats : {1}, availableSeats : {1}]

\* bodies of PUT /api/admin/bus-routes/:id
BusRoutePatches ==
  [busNumber : {"BUS-001"}] \cup [availableSeats : {1}] \cup [totalSeats : {1}]
  \cup [id : {Uuid("route", 1)}]
\* bodies of POST /api/admin/login
LoginBodies ==
  [username : {AdminEmail, "guest"}, password : {AdminPassword, "", "guess"}]
  \cup [username : {AdminEmail}]
\* the requests of one student for one date
OneStudentBodies ==
  [studentId : {Uuid("student", 1)}, busRouteId : RouteIds, travelDate : {"2025-01-10"}]

Auth == \E collegeId \in CollegeIdInputs : StudentAuth(collegeId)
Book == \E body \in BookingBodies : PostBookings(body)
Amend == \E id \in BookingIds, patch \in BookingPatches : UpdateBooking(id, patch)
SetStatus == \E status \in StatusInputs : AdminSetStatus(status)
CreateRoute == \E data \in BusRouteInputs : AdminCreateBusRoute(data)

\* students, bookings and the status gate over the seeded routes
NextBooking == Auth \/ Book \/ Amend \/ SetStatus
SpecBooking == Init /\ [][NextBooking]_vars

\* the same, with routes an admin adds; no route is updated or deleted
NextNoUpdate == Auth \/ Book \/ SetStatus \/ CreateRoute
SpecNoUpdate == Init /\ [][NextNoUpdate]_vars

\* every request above together with the store's updateBooking
NextStore == Auth \/ Book \/ Amend \/ SetStatus \/ CreateRoute
SpecStore == Init /\ [][NextStore]_vars

\* POST /api/bookings up to the await of getSystemSetting
BeginPostBookings(slot, body) ==
  /\ inflight[slot] = Idle
  /\ Suspend(slot, [op |-> "book", pc |-> "getSystemSetting", bookingData |-> body,
                    systemStatus |-> getSystemSetting(systemSettings, StatusKey)])
  /\ UNCHANGED <<store, resp, routeEdits, now, client>>

\* a check of POST /api/bookings fails: the response is sent, the handler returns
Refuse(slot, code, message) ==
  /\ Respond("POST /api/bookings", code, message, <<>>)
  /\ Finish(slot)
  /\ UNCHANGED <<store, routeEdits, now, client>>

\* ... the status check and the parse, up to the await of getStudent
CheckSystemStatus(slot) ==
  LET frame == inflight[slot]
  IN /\ frame.op = "book" /\ frame.pc = "getSystemSetting"
     /\ IF IsOffline(frame.systemStatus) THEN Refuse(slot, 503, MsgOffline)
        ELSE IF ~ insertBookingSchema(frame.bookingData)
        THEN Refuse(slot, 400, MsgInvalidBooking)
        ELSE /\ Suspend(slot, [op |-> "book", pc |-> "getStudent",
                               bookingData |-> frame.bookingData,
                               student |-> getStudent(students, frame.bookingData.studentId)])
             /\ UNCHANGED <<store, resp, routeEdits, now, client>>

\* ... the student check, up to the await of getBusRoute
CheckStudent(slot) ==
  LET frame == inflight[slot]
  IN /\ frame.op = "book" /\ frame.pc = "getStudent"
     /\ IF frame.student = Undefined THEN Refuse(slot, 404, MsgNoStudent)
        ELSE /\ Suspend(slot, [frame EXCEPT !.pc = "getBusRoute"] @@
                               [busRoute |-> getBusRoute(busRoutes, frame.bookingData.busRouteId)])
             /\ UNCHANGED <<store, resp, routeEdits, now, client>>

\* ... the route and seat checks, up to the await of getBookingsByStudentId
CheckBusRoute(slot) ==
  LET frame == inflight[slot]
  IN /\ frame.op = "book" /\ frame.pc = "getBusRoute"
     /\ IF frame.busRoute = Undefined THEN Refuse(slot, 404, MsgNoRoute)
        ELSE IF NoSeatsLeft(frame.busRoute[1]) THEN Refuse(slot, 409, MsgNoSeats)
        ELSE /\ Suspend(slot, [frame EXCEPT !.pc = "getBookingsByStudentId"] @@
                               [existingBookings |->
                                  getBookingsByStudentId(bookings, frame.student[1].id)])
             /\ UNCHANGED <<store, resp, routeEdits, now, client>>

\* ... the duplicate check, then createBooking up to its await of getBusRoute:
\* the booking is stored and the route read
CheckDuplicateAndInsert(slot) ==
  LET frame == inflight[slot]
      booking == BookingRecord(frame.bookingData, uuids.booking + 1)
  IN /\ frame.op = "book" /\ frame.pc = "getBookingsByStudentId"
     /\ IF HasDuplicate(frame.existingBookings, frame.bookingData)
        THEN Refuse(slot, 409, MsgDuplicate)
        ELSE /\ uuids.booking < MaxBookings
             /\ bookings' = MapSet(bookings, booking.id, booking)
             /\ uuids' = [uuids EXCEPT !.booking = @ + 1]
             /\ Suspend(slot, [op |-> "book", pc |-> "createBooking.getBusRoute",
                               checked |-> frame.busRoute[1],
                               booking |-> booking,
                               busRoute |-> getBusRoute(busRoutes, booking.busRouteId)])
             /\ UNCHANGED <<students, busRoutes, systemSettings, seatsAtCreation, resp,
                            routeEdits, now, client>>

\* ... createBooking from there: the seat is taken off the route as it was
\* read, up to the await of updateBusRoute; or createBooking returns
TakeSeatUnchecked(slot) ==
  LET frame == inflight[slot]
  IN /\ frame.op = "book" /\ frame.pc = "createBooking.getBusRoute"
     /\ IF frame.busRoute # Undefined
        THEN /\ busRoutes' = updateBusRoute(busRoutes, frame.busRoute[1].id,
                                            SeatPatch(frame.busRoute[1]))
             /\ Suspend(slot, [frame EXCEPT !.pc = "createBooking.updateBusRoute"])
        ELSE /\ Suspend(slot, [frame EXCEPT !.pc = "createBooking"])
             /\ UNCHANGED busRoutes
     /\ UNCHANGED <<students, bookings, systemSettings, uuids, seatsAtCreation, resp,
                    routeEdits, now, client>>
TakeSeat(slot) ==
  LET frame == inflight[slot]
  IN /\ frame.op = "book" /\ frame.pc = "createBooking.getBusRoute"
     /\ IF frame.busRoute # Undefined /\ frame.busRoute[1].availableSeats > 0
        THEN /\ busRoutes' = updateBusRoute(busRoutes, frame.busRoute[1].id,
                                            SeatPatch(frame.busRoute[1]))
             /\ Suspend(slot, [frame EXCEPT !.pc = "createBooking.updateBusRoute"])
        ELSE /\ Suspend(slot, [frame EXCEPT !.pc = "createBooking"])
             /\ UNCHANGED busRoutes
     /\ UNCHANGED <<students, bookings, systemSettings, uuids, seatsAtCreation, resp,
                    routeEdits, now, client>>

\* ... createBooking returns the booking
ReturnFromCreateBooking(slot) ==
  LET frame == inflight[slot]
  IN /\ frame.op = "book" /\ frame.pc = "createBooking.updateBusRoute"
     /\ Suspend(slot, [frame EXCEPT !.pc = "createBooking"])
     /\ UNCHANGED <<store, resp, routeEdits, now, client>>

\* ... and the handler answers with it
ReturnBooking(slot) ==
  LET frame == inflight[slot]
  IN /\ frame.op = "book" /\ frame.pc = "createBooking"
     /\ Respond("POST /api/bookings", 200, "", <<frame.booking>>)
     /\ Finish(slot)
     /\ UNCHANGED <<store, routeEdits, now, client>>

AuthOne == StudentAuth(CollegeIdOf(1))
\* ... who books once
BookOne == \E body \in OneStudentBodies : uuids.booking < 1 /\ PostBookings(body)
UpdateRoute == \E id \in RouteIds, updateData \in BusRoutePatches : AdminUpdateBusRoute(id, updateData)
DeleteRoute == \E id \in RouteIds : AdminDeleteBusRoute(id)

ReadStatus == GetSystemStatus
ListRoutes == AdminListBusRoutes
ListBookings == AdminListBookings
Stats == \E today \in Dates : AdminStats(today)

\* the admin's route management and panel next to one student's booking
NextAdmin ==
  \/ AuthOne \/ BookOne \/ SetStatus \/ CreateRoute \/ UpdateRoute \/ DeleteRoute
  \/ ReadStatus \/ ListRoutes \/ ListBookings \/ Stats
SpecAdmin == Init /\ [][NextAdmin]_vars

AuthBegin == \E slot \in Slots, collegeId \in CollegeIdInputs : BeginStudentAuth(slot, collegeId)
AuthCreate == \E slot \in Slots : CreateStudentIfNone(slot)
AuthReturn == \E slot \in Slots : ReturnCreatedStudent(slot)

\* authentication requests in flight at once, interleaving at their awaits
NextAuthRace == AuthBegin \/ AuthCreate \/ AuthReturn
SpecAuthRace == Init /\ [][NextAuthRace]_vars

\* booking requests of the students for the route the admin added, one date
NewRouteBodies ==
  [studentId : StudentIds, busRouteId : {Uuid("route", Len(SampleRoutes) + 1)},
   travelDate : {"2025-01-10"}]
\* a new request is handled by the first handler invocation that is free
FreeSlot == First({slot \in Slots : inflight[slot] = Idle})

BookBegin ==
  \E body \in NewRouteBodies :
    /\ \E slot \in Slots : inflight[slot] = Idle
    /\ BeginPostBookings(FreeSlot, body)
BookCheckStatus == \E slot \in Slots : CheckSystemStatus(slot)
BookCheckStudent == \E slot \in Slots : CheckStudent(slot)
BookCheckRoute == \E slot \in Slots : CheckBusRoute(slot)
BookInsert == \E slot \in Slots : CheckDuplicateAndInsert(slot)
BookTakeSeat == \E slot \in Slots : TakeSeat(slot)
BookCreated == \E slot \in Slots : ReturnFromCreateBooking(slot)
BookReturn == \E slot \in Slots : ReturnBooking(slot)

\* booking requests in flight at once, interleaving at their awaits, over
\* students and routes registered beforehand
NextBookingRace ==
  \/ Auth \/ CreateRoute
  \/ BookBegin \/ BookCheckStatus \/ BookCheckStudent \/ BookCheckRoute
  \/ BookInsert \/ BookTakeSeat \/ BookCreated \/ BookReturn
SpecBookingRace == Init /\ [][NextBookingRace]_vars

\* ------------------------------------------------- the student portal
\* the page shown in browser 1; a request it sends is handled before the
\* next event of the page
\* collegeIdSchema of student-portal.tsx: z.string().min(3)
portalCollegeIdSchema(collegeId) == Len(collegeId) >= 3

\* (systemStatus as any)?.status === 'offline'
isSystemOffline(systemStatus) == systemStatus # Undefined /\ systemStatus[1] = "offline"

\* selectedBus.availableDates?.includes(date)
Includes(dates, date) == \E i \in 1..Len(dates) : dates[i] = date

\* the user edits the College ID field of the authentication form
TypeCollegeId(collegeId) ==
  /\ portal.currentStudent = Undefined
  /\ portal' = [portal EXCEPT !.collegeId = collegeId]
  /\ UNCHANGED <<store, resp, inflight, routeEdits, now, statusQuery>>

\* authForm.handleSubmit(handleAuth): the resolver checks the field, then
\* authMutation posts it and onSuccess keeps the student
SubmitAuthForm ==
  LET result == StudentAuthResult(portal.collegeId)
  IN /\ portal.currentStudent = Undefined
     /\ IF ~ portalCollegeIdSchema(portal.collegeId) THEN UNCHANGED vars
        ELSE /\ result.uuids.student <= MaxStudents
             /\ resp' = result.resp
             /\ students' = result.students
             /\ uuids' = result.uuids
             /\ portal' = IF result.resp.code = 200
                          THEN [portal EXCEPT !.currentStudent = result.resp.body]
                          ELSE portal
             /\ UNCHANGED <<busRoutes, bookings, systemSettings, seatsAtCreation, inflight,
                            routeEdits, now, statusQuery>>

\* window.location.reload(): the page mounts again
Reload ==
  /\ portal' = PortalMounted
  /\ UNCHANGED <<store, resp, inflight, routeEdits, now, statusQuery>>

\* useQuery ['/api/bus-routes'], enabled once there is a student
FetchBusRoutes ==
  /\ portal.currentStudent # Undefined
  /\ resp' = GetBusRoutesResult
  /\ portal' = [portal EXCEPT !.busRoutes = <<GetBusRoutesResult.body>>]
  /\ UNCHANGED <<store, inflight, routeEdits, now, statusQuery>>

\* useQuery ['/api/student', collegeId, 'bookings'], enabled once there is a student
FetchBookingHistory ==
  LET answer == GetStudentBookingsResult(portal.currentStudent[1].collegeId)
  IN /\ portal.currentStudent # Undefined
     /\ resp' = answer
     /\ portal' = IF answer.code = 200 THEN [portal EXCEPT !.bookingHistory = <<answer.body>>]
                  ELSE portal
     /\ UNCHANGED <<store, inflight, routeEdits, now, statusQuery>>

\* the booking section is rendered
BookingSectionShown ==
  portal.currentStudent # Undefined /\ ~ isSystemOffline(statusQuery[1])

\* a BusCard that is not disabled is clicked: handleBusSelect(bus)
handleBusSelect(bus) ==
  /\ BookingSectionShown
  /\ bus.availableSeats # 0
  /\ portal' = [portal EXCEPT !.selectedBus = <<bus>>]
  /\ UNCHANGED <<store, resp, inflight, routeEdits, now, statusQuery>>

\* a date button of the selected bus is clicked: handleDateChange(date)
handleDateChange(date) ==
  /\ BookingSectionShown
  /\ portal.selectedBus # Undefined
  /\ Includes(portal.selectedBus[1].availableDates, date)
  /\ portal' = [portal EXCEPT !.selectedDate = date]
  /\ UNCHANGED <<store, resp, inflight, routeEdits, now, statusQuery>>

\* the confirm button of BookingSummary: handleBookingConfirm, bookingMutation
\* and its onSuccess
handleBookingConfirm ==
  LET bookingData == [studentId |-> portal.currentStudent[1].id,
                      busRouteId |-> portal.selectedBus[1].id,
                      travelDate |-> portal.selectedDate,
                      status |-> "confirmed"]
      result == PostBookingsResult(bookingData)
  IN /\ BookingSectionShown
     /\ portal.selectedBus # Undefined /\ portal.selectedDate # ""
     /\ result.uuids.booking <= MaxBookings
     /\ resp' = result.resp
     /\ bookings' = result.bookings
     /\ busRoutes' = result.busRoutes
     /\ uuids' = result.uuids
     /\ portal' = IF result.resp.code = 200
                  THEN [portal EXCEPT !.selectedBus = Undefined, !.selectedDate = ""]
                  ELSE portal
     /\ UNCHANGED <<students, systemSettings, seatsAtCreation, inflight, routeEdits, now,
                    statusQuery>>

\* what the user types into the College ID field
FormInputs ==
  CollegeIdInputs
  \cup { <<"a", "b">>, <<"C", "S", "E", "2", "0", "2", "3", "0", "0", "1">> }
\* the dates whose buttons the user clicks
DatesTried == {IsoDate(0), IsoDate(17), IsoDate(25)}

Type == \E collegeId \in FormInputs : TypeCollegeId(collegeId)
SelectBus ==
  /\ portal.busRoutes # Undefined
  /\ \E i \in 1..Len(portal.busRoutes[1]) : handleBusSelect(portal.busRoutes[1][i])
SelectDate == \E date \in DatesTried : handleDateChange(date)

\* one student after another at the portal of one browser
NextPortal ==
  \/ Type \/ SubmitAuthForm \/ Reload \/ FetchBusRoutes \/ FetchBookingHistory
  \/ SelectBus \/ SelectDate \/ handleBookingConfirm
SpecPortal == Init /\ [][NextPortal]_vars

\* ------------------------------------------------- the booking history
\* a millisecond passes on the server
Tick ==
  /\ now < MaxClock
  /\ now' = now + 1
  /\ UNCHANGED <<store, resp, inflight, routeEdits, client>>

\* booking requests for the first seeded route
FirstRouteBodies ==
  [studentId : StudentIds, busRouteId : {Uuid("route", 1)}, travelDate : Dates]

BookFirstRoute == \E body \in FirstRouteBodies : PostBookings(body)
History == \E collegeId \in CollegeIdInputs : GetStudentBookings(collegeId)

\* students who book, cancel and look at their booking history, as time passes
NextHistory == Auth \/ BookFirstRoute \/ Amend \/ Tick \/ History
SpecHistory == Init /\ [][NextHistory]_vars

\* ------------------------------------------------- polling of the status
\* useQuery ['/api/system/status'] with refetchInterval: the timer of
\* browser c fires, the status is fetched and the answer kept as the query's data
PollSystemStatus(c) ==
  /\ resp' = GetSystemStatusResult(systemSettings)
  /\ statusQuery' = [statusQuery EXCEPT ![c] = GetSystemStatusResult(systemSettings).body]
  /\ UNCHANGED <<store, inflight, routeEdits, now, portal>>

\* OfflineMessage renders the overlay: isOffline && !isAdminPanel
OfflineMessage(systemStatus, isAdminPanel) ==
  (systemStatus # Undefined /\ systemStatus[1] = "offline") /\ ~ isAdminPanel

Poll == \E c \in Clients : PollSystemStatus(c)

\* the admin sets the status while the browsers poll it; a browser's timer
\* keeps firing
NextPolling == SetStatus \/ Poll
SpecPolling ==
  /\ Init /\ [][NextPolling]_vars
  /\ \A c \in Clients : WF_vars(PollSystemStatus(c))

\* booking requests of the students for the first seeded route, one date
SeededRouteBodies ==
  [studentId : StudentIds, busRouteId : {Uuid("route", 1)}, travelDate : {"2025-01-10"}]

BookSeededBegin ==
  \E body \in SeededRouteBodies :
    /\ \E slot \in Slots : inflight[slot] = Idle
    /\ BeginPostBookings(FreeSlot, body)

\* booking requests for a seeded route in flight at once, interleaving at
\* their awaits with each other and with the admin's set-status requests
NextSeededRace ==
  \/ Auth \/ SetStatus
  \/ BookSeededBegin \/ BookCheckStatus \/ BookCheckStudent \/ BookCheckRoute
  \/ BookInsert \/ BookTakeSeat \/ BookCreated \/ BookReturn
SpecSeededRace == Init /\ [][NextSeededRace]_vars

\* ------------------------------------------------- routes taken out of service
\* bodies of PUT /api/admin/bus-routes/:id that switch a route off or on
ActivePatches == [isActive : BOOLEAN]

Login == \E body \in LoginBodies : AdminLogin(body)
SetActive == \E id \in RouteIds, updateData \in ActivePatches : AdminUpdateBusRoute(id, updateData)

\* the admin logs in and switches routes off and on, a student lists the
\* active routes and books
NextVisibility == Login \/ AuthOne \/ SetActive \/ GetBusRoutes \/ BookOne
SpecVisibility == Init /\ [][NextVisibility]_vars

Next == NextStore
Spec == Init /\ [][Next]_vars

\* ------------------------------------------------- vocabulary of the claims
BookingOp == "POST /api/bookings"
AuthOp == "POST /api/student/auth"
Routes == {busRoutes[i].value : i \in 1..Len(busRoutes)}
Bookings == {bookings[i].value : i \in 1..Len(bookings)}
\* the value of the system_status setting, "online" when there is none
SystemStatus ==
  IF \E i \in 1..Len(systemSettings) : systemSettings[i].key = StatusKey
  THEN (CHOOSE e \in {systemSettings[i] : i \in 1..Len(systemSettings)} :
          e.key = StatusKey).value.value
  ELSE "online"
WellFormed(body) == "travelDate" \in DOMAIN body
Registered(body) == \E i \in 1..Len(students) : students[i].key = body.studentId
NamedRoutes(body) ==
  {busRoutes[i].value : i \in {j \in 1..Len(busRoutes) : busRoutes[j].key = body.busRouteId}}
\* bookings of the request's student for the request's route and date
SameTriple(body) ==
  {b \in Bookings : /\ b.studentId = body.studentId
                    /\ b.busRouteId = body.busRouteId
                    /\ b.travelDate = body.travelDate}
Accepted(route) == Cardinality({b \in Bookings : b.busRouteId = route.id})
Started(route) == seatsAtCreation[route.id[2]]
\* what POST /api/bookings would answer and leave behind in this state
Answer(body) == PostBookingsResult(body).resp
Untouched(body) ==
  /\ PostBookingsResult(body).bookings = bookings
  /\ PostBookingsResult(body).busRoutes = busRoutes

\* ------------------------------------------------------------- claims
\* C1: from the seeded store, whatever booking requests are made, every
\* route keeps 0 <= availableSeats <= totalSeats.
C1_SeatsWithinCapacity ==
  \A r \in Routes : 0 <= r.availableSeats /\ r.availableSeats <= r.totalSeats
\* a booking was accepted and took a seat off a seeded route
C1_SeatTaken ==
  /\ resp.op = BookingOp /\ resp.code = 200
  /\ \E r \in Routes : r.availableSeats < Started(r) /\ Accepted(r) > 0

NeverOversold ==
  \A r \in Routes : /\ Accepted(r) <= Started(r)
                    /\ Accepted(r) = Started(r) => r.availableSeats = 0
SoldOut(body) == \E r \in NamedRoutes(body) : Accepted(r) = Started(r)
\* C2 (as stated): a route never accepts more bookings than the seats it
\* started with, and once it has accepted that many its counter is 0 and
\* every further request for it is rejected with the no-seats error.
C2_SoldOutAlwaysNoSeats ==
  /\ NeverOversold
  /\ \A body \in BookingBodies :
       (WellFormed(body) /\ Registered(body) /\ SoldOut(body))
       => /\ Untouched(body)
          /\ Answer(body).code = 409 /\ Answer(body).message = MsgNoSeats
\* C2 (amended): the same, the rejection being the no-seats error while the
\* system is online and the service-unavailable error while it is offline.
C2_SoldOutRejected ==
  /\ NeverOversold
  /\ \A body \in BookingBodies :
       (WellFormed(body) /\ Registered(body) /\ SoldOut(body))
       => /\ Untouched(body)
          /\ SystemStatus = "offline" => Answer(body).code = 503
          /\ SystemStatus # "offline"
               => Answer(body).code = 409 /\ Answer(body).message = MsgNoSeats
\* a route created with seats has sold all of them and turned a request away
C2_SoldOutTurnedAway ==
  /\ resp.op = BookingOp /\ resp.message = MsgNoSeats
  /\ \E r \in Routes : Started(r) >= 1 /\ Accepted(r) = Started(r)

\* C3: at most one booking that is not cancelled per (student, route, date).
C3_OneActiveBookingPerTriple ==
  \A a, b \in Bookings :
    (/\ a.studentId = b.studentId /\ a.busRouteId = b.busRouteId
     /\ a.travelDate = b.travelDate
     /\ a.status # "cancelled" /\ b.status # "cancelled") => a = b

HoldsConfirmed(body) == \E b \in SameTriple(body) : b.status = "confirmed"
\* C4 (as stated): while a student holds a confirmed booking for a route and
\* date, a second request for them is rejected as a duplicate, nothing added.
C4_SecondIsDuplicate ==
  \A body \in BookingBodies :
    (WellFormed(body) /\ HoldsConfirmed(body))
    => /\ PostBookingsResult(body).bookings = bookings
       /\ Answer(body).message = MsgDuplicate
\* C4 (amended): the second request is always rejected and adds nothing; the
\* rejection is the duplicate error when the system is online and the route
\* still exists with a seat left, otherwise the error of the earlier check.
C4_SecondIsRejected ==
  \A body \in BookingBodies :
    (WellFormed(body) /\ HoldsConfirmed(body))
    => /\ Untouched(body)
       /\ Answer(body).code # 200
       /\ (SystemStatus # "offline"
           /\ \E r \in NamedRoutes(body) : r.availableSeats > 0)
          => Answer(body).code = 409 /\ Answer(body).message = MsgDuplicate
\* a request was turned away as a duplicate of a confirmed booking
C4_DuplicateTurnedAway ==
  /\ resp.op = BookingOp /\ resp.message = MsgDuplicate
  /\ \E b \in Bookings : b.status = "confirmed"

OnlyCancelled(body) ==
  /\ SameTriple(body) # {}
  /\ \A b \in SameTriple(body) : b.status = "cancelled"
Created(body) ==
  LET result == PostBookingsResult(body)
      new == result.bookings[Len(result.bookings)].value
  IN /\ result.resp.code = 200
     /\ Len(result.bookings) = Len(bookings) + 1
     /\ SubSeq(result.bookings, 1, Len(bookings)) = bookings
     /\ result.resp.body = <<new>>
     /\ new.studentId = body.studentId
     /\ new.busRouteId = body.busRouteId
     /\ new.travelDate = body.travelDate
     /\ \A b \in Bookings : b.id # new.id
\* C5 (as stated): once a student's booking for a route and date has been
\* cancelled, the student's next request for them creates a new booking.
C5_RebookAfterCancel ==
  \A body \in BookingBodies :
    (WellFormed(body) /\ OnlyCancelled(body)) => Created(body)
\* C5 (amended): ... provided the system is online and the route still
\* exists with a seat left: cancelling does not give the seat back.
C5_RebookAfterCancelIfSeat ==
  \A body \in BookingBodies :
    (/\ WellFormed(body) /\ OnlyCancelled(body)
     /\ SystemStatus # "offline"
     /\ \E r \in NamedRoutes(body) : r.availableSeats > 0)
    => Created(body)
\* the last request re-booked a triple whose earlier booking is cancelled
C5_Rebooked ==
  /\ resp.op = BookingOp /\ resp.code = 200
  /\ \E b \in Bookings :
       /\ b # resp.body[1] /\ b.status = "cancelled"
       /\ b.studentId = resp.body[1].studentId
       /\ b.busRouteId = resp.body[1].busRouteId
       /\ b.travelDate = resp.body[1].travelDate

NamesFullRoute(body) == \E r \in NamedRoutes(body) : r.availableSeats = 0
\* C6 (as stated): a request for a route with no seat left fails with the
\* no-seats error and changes neither the bookings nor any route.
C6_FullRouteAlwaysNoSeats ==
  \A body \in BookingBodies :
    (WellFormed(body) /\ Registered(body) /\ NamesFullRoute(body))
    => Untouched(body) /\ Answer(body).message = MsgNoSeats
\* C6 (amended): such a request always fails and changes nothing; the error
\* is the no-seats error when the system is online, the body well formed and
\* the student registered, and the error of the earlier check otherwise.
C6_FullRouteRejected ==
  \A body \in BookingBodies :
    NamesFullRoute(body)
    => /\ Untouched(body)
       /\ Answer(body).code \in {400, 404, 409, 503}
       /\ (SystemStatus # "offline" /\ WellFormed(body) /\ Registered(body))
          => Answer(body).code = 409 /\ Answer(body).message = MsgNoSeats
\* a registered student was refused a seat on a full route
C6_NoSeatsReported ==
  /\ resp.op = BookingOp /\ resp.code = 409 /\ resp.message = MsgNoSeats
  /\ students # <<>>
  /\ \E r \in Routes : r.availableSeats = 0

OtherwiseValid(body) ==
  /\ WellFormed(body) /\ Registered(body)
  /\ \E r \in NamedRoutes(body) : r.availableSeats > 0
  /\ \A b \in SameTriple(body) : b.status = "cancelled"
\* C7: while the status is "offline" every booking request fails with 503
\* and changes neither the bookings nor any route; once it is "online"
\* again an otherwise valid request is accepted.
C7_OfflineGate ==
  \A body \in BookingBodies :
    /\ SystemStatus = "offline"
         => /\ Untouched(body)
            /\ Answer(body).code = 503 /\ Answer(body).message = MsgOffline
    /\ (SystemStatus = "online" /\ OtherwiseValid(body)) => Created(body)
\* a registered student's request was refused because the system is offline
C7_RefusedOffline ==
  /\ resp.op = BookingOp /\ resp.code = 503
  /\ SystemStatus = "offline" /\ students # <<>>

\* C8: an accepted request stores one new confirmed booking, takes exactly
\* one seat off the booked route, changes nothing else and returns the booking.
C8_AcceptedBooking ==
  \A body \in BookingBodies :
    LET result == PostBookingsResult(body)
    IN result.resp.code = 200
       => /\ Created(body)
          /\ result.bookings[Len(result.bookings)].value.status = "confirmed"
          /\ Len(result.busRoutes) = Len(busRoutes)
          /\ \A i \in 1..Len(busRoutes) :
               IF busRoutes[i].key = body.busRouteId
               THEN /\ busRoutes[i].value.availableSeats >= 1
                    /\ result.busRoutes[i] =
                         [busRoutes[i] EXCEPT !.value.availableSeats = @ - 1]
               ELSE result.busRoutes[i] = busRoutes[i]

FirstFailure(body) ==
  IF SystemStatus = "offline" THEN MsgOffline
  ELSE IF ~ Registered(body) THEN MsgNoStudent
  ELSE IF NamedRoutes(body) = {} THEN MsgNoRoute
  ELSE IF \E r \in NamedRoutes(body) : r.availableSeats <= 0 THEN MsgNoSeats
  ELSE IF \E b \in SameTriple(body) : b.status # "cancelled" THEN MsgDuplicate
  ELSE ""
\* C9: the failure reported is the first that applies in the order offline,
\* student not found, route not found, no seats, duplicate.
C9_FirstFailureReported ==
  \A body \in BookingBodies :
    (WellFormed(body) \/ SystemStatus = "offline")
    => Answer(body).message = FirstFailure(body)
\* no-seats was reported on a full route whose seats are held by bookings,
\* so that a repeat of one of them fails both the seat and the duplicate check
C9_NoSeatsBeforeDuplicate ==
  /\ resp.op = BookingOp /\ resp.message = MsgNoSeats
  /\ \E r \in Routes, b \in Bookings :
       r.availableSeats = 0 /\ b.busRouteId = r.id /\ b.status # "cancelled"

WithCollegeId(ss, collegeId) == {i \in 1..Len(ss) : ss[i].value.collegeId = collegeId}
\* C10: authenticating with a well-formed college ID returns the one student
\* record of that ID: the first call creates it, every later call returns it
\* and creates nothing.
C10_AuthIdempotent ==
  /\ \A i, j \in 1..Len(students) :
       students[i].value.collegeId = students[j].value.collegeId => i = j
  /\ \A collegeId \in CollegeIdInputs :
       LET result == StudentAuthResult(collegeId)
       IN collegeIdSchema(collegeId)
          => /\ result.resp.code = 200
             /\ \E i \in WithCollegeId(result.students, collegeId) :
                  result.resp.body = <<result.students[i].value>>
             /\ IF WithCollegeId(students, collegeId) = {}
                THEN /\ Len(result.students) = Len(students) + 1
                     /\ SubSeq(result.students, 1, Len(students)) = students
                ELSE /\ result.students = students
                     /\ \E i \in WithCollegeId(students, collegeId) :
                          result.resp.body[1].id = students[i].value.id
\* the first student was returned again after a second one had registered
C10_ReturnedAgain ==
  /\ resp.op = AuthOp /\ resp.code = 200
  /\ Len(students) = 2 /\ resp.body = <<students[1].value>>

\* C11: no two student records have the same college ID, also when two
\* authentication requests for one unregistered college ID are in flight and
\* interleave between the lookup and the create.
C11_CollegeIdUnique ==
  \A i, j \in 1..Len(students) :
    students[i].value.collegeId = students[j].value.collegeId => i = j

CreateRouteOp == "POST /api/admin/bus-routes"
WithBusNumber(rs, busNumber) == {i \in 1..Len(rs) : rs[i].value.busNumber = busNumber}
\* C12: creating a route whose bus number an existing route already uses is
\* refused with 409 and leaves the route collection as it was, which still
\* holds exactly one route with that bus number.
C12_DuplicateBusNumberRefused ==
  \A data \in BusRouteInputs :
    LET result == AdminCreateBusRouteResult(data)
    IN (insertBusRouteSchema(data) /\ WithBusNumber(busRoutes, data.busNumber) # {})
       => /\ result.resp.code = 409 /\ result.resp.message = MsgBusNumber
          /\ result.busRoutes = busRoutes /\ result.uuids = uuids
          /\ Cardinality(WithBusNumber(result.busRoutes, data.busNumber)) = 1
\* the admin created BUS-099 and a second creation of BUS-099 was refused
C12_SecondCreationRefused ==
  /\ resp.op = CreateRouteOp /\ resp.code = 409
  /\ Len(busRoutes) = Len(SampleRoutes) + 1
  /\ WithBusNumber(busRoutes, "BUS-099") = {Len(busRoutes)}

\* C13: whatever routes the admin creates, updates (PUT) and deletes, no two
\* routes have the same bus number.
C13_BusNumberUnique ==
  \A i, j \in 1..Len(busRoutes) :
    busRoutes[i].value.busNumber = busRoutes[j].value.busNumber => i = j

\* C14: whatever requests are made, route creations and partial updates
\* included, every route keeps 0 <= availableSeats <= totalSeats.
C14_SeatsWithinCapacityAlways ==
  \A i \in 1..Len(busRoutes) :
    /\ 0 <= busRoutes[i].value.availableSeats
    /\ busRoutes[i].value.availableSeats <= busRoutes[i].value.totalSeats

\* the availableSeats of the route stored under key, in a route collection
SeatsOf(rs, key) == MapGet(rs, key)[1].availableSeats
KeysOf(map) == {map[i].key : i \in 1..Len(map)}
\* C15: the availableSeats of an existing route changes only when a booking
\* request is accepted, which takes one seat; no other request changes it.
C15_SeatsChangeOnlyByBooking ==
  [][\A key \in KeysOf(busRoutes) \cap KeysOf(busRoutes') :
       SeatsOf(busRoutes', key) # SeatsOf(busRoutes, key)
       => /\ resp'.op = BookingOp /\ resp'.code = 200
          /\ Len(bookings') = Len(bookings) + 1
          /\ SeatsOf(busRoutes', key) = SeatsOf(busRoutes, key) - 1]_vars

\* C16: a cancelled booking stays cancelled whatever the store is asked to
\* do, and a booking's status changes only when updateBooking is called.
C16_CancelledIsFinal ==
  [][\A i \in 1..Len(bookings) :
       /\ bookings[i].value.status = "cancelled"
            => bookings'[i].value.status = "cancelled"
       /\ bookings'[i].value.status # bookings[i].value.status
            => resp'.op = "updateBooking"]_vars

SetStatusOp == "POST /api/admin/system/status"
StatusRead(st) == GetSystemStatusResult(st).body[1]
\* C17: the status read is always "online" or "offline"; it is "online" at
\* startup and when there is no setting record; a set-status request with
\* another value is refused (400) and changes nothing; an accepted one makes
\* the status read back the value set, held in the one record of the key.
C17_SystemStatus ==
  /\ StatusRead(systemSettings) \in {"online", "offline"}
  /\ resp = NoResponse => StatusRead(systemSettings) = "online"
  /\ StatusRead(MapDelete(systemSettings, StatusKey)) = "online"
  /\ \A status \in StatusInputs :
       LET result == AdminSetStatusResult(status)
       IN IF status \in {"online", "offline"}
          THEN /\ result.resp.code = 200 /\ result.resp.body = <<status>>
               /\ StatusRead(result.systemSettings) = status
               /\ Cardinality({i \in 1..Len(result.systemSettings) :
                                 result.systemSettings[i].key = StatusKey}) = 1
               /\ Cardinality({i \in 1..Len(result.systemSettings) :
                                 result.systemSettings[i].value.key = StatusKey}) = 1
          ELSE /\ result.resp.code = 400
               /\ result.systemSettings = systemSettings
\* a request set the status to offline, and it reads offline from one record
C17_SetOffline ==
  /\ resp.op = SetStatusOp /\ resp.code = 200 /\ resp.body = <<"offline">>
  /\ StatusRead(systemSettings) = "offline"
  /\ Len(systemSettings) = 1

\* what each admin operation would answer, and leave behind, in this state
AdminAnswers ==
  << [data \in BusRouteInputs |-> AdminCreateBusRouteResult(data)],
     [request \in RouteIds \X BusRoutePatches |->
        AdminUpdateBusRouteResult(request[1], request[2])],
     [id \in RouteIds |-> AdminDeleteBusRouteResult(id)],
     AdminListBusRoutesResult,
     AdminListBookingsResult,
     [today \in Dates |-> AdminStatsResult(today)],
     [status \in StatusInputs |-> AdminSetStatusResult(status).resp],
     [status \in {"online", "offline"} |-> AdminSetStatusResult(status).systemSettings] >>
\* C18: the status gates nothing of the admin panel: once the status has
\* gone from online to offline, every admin operation (list routes, create,
\* update, delete a route, list bookings, stats, set status) answers and
\* leaves behind exactly what it did while the status was online.
C18_AdminIgnoresStatus ==
  [][(StatusRead(systemSettings) = "online" /\ StatusRead(systemSettings') = "offline")
     => AdminAnswers' = AdminAnswers]_vars
\* the admin created a route while the system was offline
C18_CreatedWhileOffline ==
  /\ SystemStatus = "offline"
  /\ resp.op = CreateRouteOp /\ resp.code = 200
  /\ Len(busRoutes) = Len(SampleRoutes) + 1

\* the request in a slot has stored its booking and finished with the store,
\* having seen the route with its last seat at the availability check
StoredOnLastSeat(slot) ==
  /\ inflight[slot].op = "book" /\ inflight[slot].pc = "createBooking"
  /\ inflight[slot].checked.availableSeats = 1
\* C19: two booking requests of different students for one route in flight at
\* once, both having passed the availability check while the route had its
\* last seat: both bookings are stored, two bookings for the one seat; the
\* route holds more bookings than it had seats, and its counter is 0.
C19_BothStoredOnLastSeat ==
  \A a, b \in Slots :
    LET first == inflight[a].booking
        second == inflight[b].booking
    IN (/\ a # b /\ StoredOnLastSeat(a) /\ StoredOnLastSeat(b)
        /\ first.busRouteId = second.busRouteId
        /\ first.studentId # second.studentId)
       => /\ {first, second} \subseteq Bookings /\ first.id # second.id
          /\ \A r \in NamedRoutes(first) :
               Accepted(r) > Started(r) /\ r.availableSeats = 0
\* both requests are about to answer with their booking, on a route that was
\* created with one seat
C19_Oversold ==
  /\ \A slot \in Slots : StoredOnLastSeat(slot)
  /\ inflight[1].booking.busRouteId = inflight[2].booking.busRouteId
  /\ inflight[1].booking.studentId # inflight[2].booking.studentId
  /\ \E r \in NamedRoutes(inflight[1].booking) : Started(r) = 1 /\ Accepted(r) = 2

\* every record of the collection is stored under its own identifier, and no
\* two of its records carry the same identifier
KeyedByIdentifier(map) ==
  /\ \A i \in 1..Len(map) : map[i].value.id = map[i].key
  /\ \A i, j \in 1..Len(map) : map[i].value.id = map[j].value.id => i = j
\* C20: in the student, route and booking collections no two records carry
\* the same identifier and each record's identifier is the key it is stored
\* under, whatever is created, partially updated and deleted.
C20_IdentifiersAreKeys ==
  /\ KeyedByIdentifier(students)
  /\ KeyedByIdentifier(busRoutes)
  /\ KeyedByIdentifier(bookings)

LoginOp == "POST /api/admin/login"
HistoryOp == "GET /api/student/:collegeId/bookings"
DeleteRouteOp == "DELETE /api/admin/bus-routes/:id"
FailureCodes == {400, 401, 404, 409, 503}
\* C21: a request answered with a failure response (validation error,
\* not-found, conflict, unauthorized, service-unavailable) leaves the students,
\* routes, bookings and settings exactly as they were; every answer that is
\* not a success is one of those failures.
C21_FailuresChangeNothing ==
  /\ \A collegeId \in CollegeIdInputs :
       LET result == StudentAuthResult(collegeId)
       IN result.resp.code # 200
          => /\ result.resp.code \in FailureCodes
             /\ result.students = students /\ result.uuids = uuids
  /\ \A body \in BookingBodies :
       LET result == PostBookingsResult(body)
       IN result.resp.code # 200
          => /\ result.resp.code \in FailureCodes
             /\ result.bookings = bookings /\ result.busRoutes = busRoutes
             /\ result.uuids = uuids
  /\ \A data \in BusRouteInputs :
       LET result == AdminCreateBusRouteResult(data)
       IN result.resp.code # 200
          => /\ result.resp.code \in FailureCodes
             /\ result.busRoutes = busRoutes /\ result.uuids = uuids
  /\ \A id \in RouteIds :
       /\ \A updateData \in BusRoutePatches :
            LET result == AdminUpdateBusRouteResult(id, updateData)
            IN result.resp.code # 200
               => result.resp.code \in FailureCodes /\ result.busRoutes = busRoutes
       /\ LET result == AdminDeleteBusRouteResult(id)
          IN result.resp.code # 200
             => result.resp.code \in FailureCodes /\ result.busRoutes = busRoutes
  /\ \A status \in StatusInputs :
       LET result == AdminSetStatusResult(status)
       IN result.resp.code # 200
          => result.resp.code \in FailureCodes /\ result.systemSettings = systemSettings
  /\ \A body \in LoginBodies : AdminLoginResult(body).code \in FailureCodes \cup {200}
  /\ \A collegeId \in CollegeIdInputs :
       GetStudentBookingsResult(collegeId).code \in FailureCodes \cup {200}
\* a route that had been deleted was asked to be deleted again: not found,
\* and the routes that were left are still there
C21_DeletedTwice ==
  /\ resp.op = DeleteRouteOp /\ resp.code = 404
  /\ Len(busRoutes) = Len(SampleRoutes) - 1

\* C22: the college-ID rule is the same everywhere: the ID typed into the
\* portal's authentication form is accepted by the form if and only if POST
\* /api/student/auth accepts it, if and only if GET
\* /api/student/:collegeId/bookings accepts it.
C22_SameCollegeIdRule ==
  /\ portalCollegeIdSchema(portal.collegeId)
       <=> StudentAuthResult(portal.collegeId).resp.code = 200
  /\ StudentAuthResult(portal.collegeId).resp.code = 200
       <=> GetStudentBookingsResult(portal.collegeId).code = 200

\* C29: in the portal, whenever a bus and a travel date are both selected
\* (the booking can be confirmed), the date is one of the selected bus's
\* availableDates.
C29_SelectedDateIsAvailable ==
  (portal.selectedBus # Undefined /\ portal.selectedDate # "")
  => Includes(portal.selectedBus[1].availableDates, portal.selectedDate)

\* the stored booking that an entry of a booking history shows
Shown(entry) == [f \in DOMAIN entry \ {"busRoute"} |-> entry[f]]
\* C23: the booking history of a well-formed college ID lists exactly the
\* stored bookings of the student with that college ID, each once whatever its
\* status, the newest first; it is empty when there is no such student; and
\* the request creates no student and changes no state.
C23_BookingHistory ==
  /\ [](\A collegeId \in CollegeIdInputs :
         LET answer == GetStudentBookingsResult(collegeId)
             history == answer.body
             owners == {students[i].value.id : i \in WithCollegeId(students, collegeId)}
         IN collegeIdSchema(collegeId)
            => /\ answer.code = 200
               /\ owners = {} => history = <<>>
               /\ {Shown(history[i]) : i \in 1..Len(history)}
                    = {b \in Bookings : b.studentId \in owners}
               /\ \A i, j \in 1..Len(history) : history[i].id = history[j].id => i = j
               /\ \A i, j \in 1..Len(history) :
                    i < j => history[i].bookingTime >= history[j].bookingTime)
  /\ [][resp'.op = HistoryOp => UNCHANGED store]_vars
\* a student's history was returned with a cancelled booking behind a newer
\* one, while another student holds no booking in it
C23_NewestFirst ==
  /\ resp.op = HistoryOp /\ resp.code = 200 /\ Len(resp.body) = 2
  /\ resp.body[1].bookingTime > resp.body[2].bookingTime
  /\ resp.body[2].status = "cancelled"
  /\ Len(students) = 2

\* C24: if the admin-set status stops changing, every student browser's view
\* of it eventually equals the last value set, and stays so: the maintenance
\* overlay is shown iff that value is "offline".
C24_ViewsFollowStatus ==
  \A status \in {"online", "offline"} :
    <>[](SystemStatus = status)
    => <>[](\A c \in Clients :
              /\ statusQuery[c] = <<status>>
              /\ OfflineMessage(statusQuery[c], FALSE) <=> status = "offline")
\* the admin has set the status to offline and every browser shows the overlay
C24_AllShowOverlay ==
  /\ SystemStatus = "offline"
  /\ \A c \in Clients : OfflineMessage(statusQuery[c], FALSE)

\* C25: however booking requests in flight at once interleave at the awaits
\* of the handler and of the store, no route's availableSeats is negative:
\* createBooking writes the decremented counter only when the counter it has
\* just read is positive.
C25_NeverNegative ==
  /\ \A r \in Routes : r.availableSeats >= 0
  /\ \A slot \in Slots :
       (inflight[slot].op = "book" /\ inflight[slot].pc = "createBooking.updateBusRoute")
       => inflight[slot].busRoute[1].availableSeats > 0
\* a request that saw the last seat at the handler's check found none left
\* when createBooking read the route again, and wrote nothing
C25_RecheckHeld ==
  \E slot \in Slots :
    /\ inflight[slot].op = "book" /\ inflight[slot].pc = "createBooking"
    /\ inflight[slot].checked.availableSeats = 1
    /\ inflight[slot].busRoute # Undefined
    /\ inflight[slot].busRoute[1].availableSeats = 0

\* C26: however concurrent booking requests for a route with enough seats for
\* all of them interleave, once they have all completed the route's
\* availableSeats is the value it started with minus the number of bookings
\* created for it: no decrement is lost.
C26_NoLostDecrement ==
  (\A slot \in Slots : inflight[slot] = Idle)
  => \A r \in Routes :
       Started(r) >= Accepted(r) => r.availableSeats = Started(r) - Accepted(r)

\* C27: no booking is added to the store while the system status is offline,
\* also when a set-status request comes between a booking request's status
\* check and its createBooking.
C27_NoBookingWhileOffline ==
  [][Len(bookings') > Len(bookings) => SystemStatus # "offline"]_vars

\* C28: every stored booking's student reference resolves to a stored
\* student and its route reference to a stored route, whatever bookings are
\* created and whatever routes the admin creates, updates and deletes.
C28_ReferencesResolve ==
  \A b \in Bookings :
    /\ getStudent(students, b.studentId) # Undefined
    /\ getBusRoute(busRoutes, b.busRouteId) # Undefined

\* C30: a booking is accepted only on a route that students can see: a
\* request that is accepted names a route that is among those GET
\* /api/bus-routes returns at that moment.
C30_BookedRouteIsActive ==
  \A body \in OneStudentBodies :
    Answer(body).code = 200
    => \E i \in 1..Len(GetBusRoutesResult.body) :
         GetBusRoutesResult.body[i].id = body.busRouteId

====
